---- MODULE Spec2Model ----
(***************************************************************************)
(* Model of scripts/gradle-patch-properties.py: for every path on the      *)
(* command line, look up the mx executable, read the properties file, ask  *)
(* `mx urlrewrite` for the replacement of the first distributionUrl value  *)
(* and overwrite the file when the URL differs.                            *)
(*                                                                         *)
(* Text is a sequence of characters.  The fifteen characters of the key    *)
(* are carried as the single token "distributionUrl"; every other element  *)
(* is one character.  A file is the sequence of characters stored on disk, *)
(* so that reading (universal newlines, readlines) and writing (writelines *)
(* with newline translation) are computed, not assumed.                    *)
(***************************************************************************)
EXTENDS Integers, Sequences

\* ------------------------------------------------------------------ bounds
MaxArgs == 2
MaxFragments == 2

\* ------------------------------------------------------------ text helpers
KEY == "distributionUrl"
LF == "\n"
CR == "\r"

\* str.strip() with no argument removes leading and trailing whitespace.
Whitespace == {" ", LF, CR}

None == <<"None">>

RECURSIVE Concat(_)
Concat(ss) == IF ss = <<>> THEN <<>> ELSE Head(ss) \o Concat(Tail(ss))

HasLineBreak(s) == \E k \in 1..Len(s) : s[k] \in {LF, CR}

strip(s) ==
  LET keep == {k \in 1..Len(s) : s[k] \notin Whitespace}
  IN  IF keep = {} THEN <<>>
      ELSE LET lo == CHOOSE k \in keep : \A m \in keep : k <= m
               hi == CHOOSE k \in keep : \A m \in keep : k >= m
           IN  SubSeq(s, lo, hi)

startswith(s, p) == Len(s) >= Len(p) /\ SubSeq(s, 1, Len(p)) = p

\* line.strip().startswith('distributionUrl=')
IsTarget(line) == startswith(strip(line), <<KEY, "=">>)

\* line.split('=', 1)[1]: everything after the first '='.
AfterFirstEq(line) ==
  LET eqs == {k \in 1..Len(line) : line[k] = "="}
      k0 == CHOOSE k \in eqs : \A m \in eqs : k <= m
  IN  SubSeq(line, k0 + 1, Len(line))

\* A slip: line.rsplit('=', 1)[1], the text after the last '='.
OldUrl_LastEq(line) ==
  LET eqs == {k \in 1..Len(line) : line[k] = "="}
      k0 == CHOOSE k \in eqs : \A m \in eqs : k >= m
  IN  strip(SubSeq(line, k0 + 1, Len(line)))

\* old_url = line.split('=', 1)[1].strip()
OldUrl(line) == strip(AfterFirstEq(line))

\* A slip: the replacement line without its newline.
NewLine_NoNewline(url) == <<KEY, "=">> \o url

\* f'distributionUrl={new_url}\n'
NewLine(url) == <<KEY, "=">> \o url \o <<LF>>

\* Text mode, newline=None, reading: "\r\n" and a lone "\r" become "\n".
RECURSIVE UniversalNewlines(_)
UniversalNewlines(b) ==
  IF b = <<>> THEN <<>>
  ELSE IF Head(b) = CR
       THEN IF Len(b) >= 2 /\ b[2] = LF
            THEN <<LF>> \o UniversalNewlines(SubSeq(b, 3, Len(b)))
            ELSE <<LF>> \o UniversalNewlines(Tail(b))
       ELSE <<Head(b)>> \o UniversalNewlines(Tail(b))

\* Split after each occurrence of a terminator in `terms`, keeping it.
RECURSIVE SplitKeep(_, _, _)
SplitKeep(t, cur, terms) ==
  IF t = <<>> THEN (IF cur = <<>> THEN <<>> ELSE <<cur>>)
  ELSE IF Head(t) \in terms
       THEN <<cur \o <<Head(t)>>>> \o SplitKeep(Tail(t), <<>>, terms)
       ELSE SplitKeep(Tail(t), cur \o <<Head(t)>>, terms)

\* f.readlines() on a file opened with open(path, 'r')
readlines(bytes) == SplitKeep(UniversalNewlines(bytes), <<>>, {LF})

\* os.linesep
linesep(os) == IF os = "nt" THEN <<CR, LF>> ELSE <<LF>>

\* Text mode, newline=None, writing: every "\n" becomes os.linesep.
RECURSIVE TranslateNewlines(_, _)
TranslateNewlines(t, os) ==
  IF t = <<>> THEN <<>>
  ELSE (IF Head(t) = LF THEN linesep(os) ELSE <<Head(t)>>)
         \o TranslateNewlines(Tail(t), os)

\* The bytes f.writelines(lines) puts into a file opened with open(path, 'w')
writelines(ls, os) == TranslateNewlines(Concat(ls), os)

\* mx_exec = 'mx.cmd' if os.name == 'nt' else 'mx'
MxExec(os) == IF os = "nt" THEN "mx.cmd" ELSE "mx"

\* A slip: the tool's output taken without .strip().
Decode_NoStrip(out) == out

\* line 33: check_output(...).decode('utf-8').strip()
Decode(out) == strip(out)

\* A slip: the file is rewritten whatever the tool returned.
Differs_Always(new, old) == TRUE

\* line 34: new_url != old_url
Differs(new, old) == new # old

\* ------------------------------------------------------------ exit statuses
\* Falling off the end of the script.
ExitOk == 0
ExitUsage == 1
\* A slip: a missing tool reported as a failure.
ExitNoTool_Failure == ExitUsage
ExitNoTool == 0
\* A slip: an unreadable file reported as success.
ExitReadError_Success == ExitOk
ExitReadError == 1
ExitToolError == 1
ExitWriteError == 1
\* A slip: a missing key reported as success.
ExitNotFound_Success == ExitOk
ExitNotFound == 1
\* The process has not exited.
NoExit == -1

\* ------------------------------------------------------------------ inputs
Paths == {"p1", "p2"}

\* Pieces of file content; files are concatenations of fragments, at most
\* MaxFragments of them in all the files of a command line.
Fragments ==
  { <<"#", LF>>,
    <<KEY, "=", "a", LF>>,
    <<" ", KEY, "=", " ", "b", "=", "a", " ", CR, LF>>,
    <<KEY, "=", "b">> }

RECURSIVE SeqsUpTo(_, _)
SeqsUpTo(S, n) ==
  IF n = 0 THEN {<<>>}
  ELSE LET shorter == SeqsUpTo(S, n - 1)
       IN  shorter \cup {Append(q, x) : q \in {r \in shorter : Len(r) = n - 1}, x \in S}

\* Contents of the files: for each path, its fragments.
Contents ==
  {c \in [Paths -> SeqsUpTo(Fragments, MaxFragments)] :
     Len(c["p1"]) + Len(c["p2"]) <= MaxFragments}

\* Command lines, paths named in order of first appearance.
Argvs == {a \in SeqsUpTo(Paths, MaxArgs) :
            \A k \in 1..Len(a) : a[k] = "p2" => \E m \in 1..(k - 1) : a[m] = "p1"}

\* Exit of `mx urlrewrite <url>`: non-zero, or zero with this standard output.
ToolFail == <<"CalledProcessError">>
ToolResults(url) ==
  { ToolFail,
    url \o <<LF>>,
    <<"a", LF>>,
    <<" ", "b", CR, LF>>,
    <<"a", LF, "b", LF>> }

\* ------------------------------------------------------------------- state
VARIABLES
  osName,      \* os.name
  argv,        \* sys.argv[1:]
  fs,          \* path -> bytes of the file
  pc,          \* position in the script
  idx,         \* position in argv of properties_path
  lines, i, found, updated, old_url, new_url,   \* the script's variables
  exitStatus,  \* status passed to sys.exit, NoExit while running
  log,         \* what this run did, in order: [op, k, ok, data]
  toolCalls,   \* <<url, result>> of every mx urlrewrite so far
  before,      \* bytes of the current file when it was read
  linesRead,   \* lines of the current file as read
  orig,        \* fs before the first run
  run,         \* number of the run
  prev         \* fs, log and exit status at the end of the previous run

vars == <<osName, argv, fs, pc, idx, lines, i, found, updated, old_url, new_url,
          exitStatus, log, toolCalls, before, linesRead, orig, run, prev>>

locals == <<lines, i, found, updated, old_url, new_url>>
env == <<osName, argv, orig, run, prev>>

sys_argv == <<"gradle-patch-properties.py">> \o argv
properties_path == argv[idx]

Ev(op, ok, data) == [op |-> op, k |-> idx, ok |-> ok, data |-> data]

Init ==
  /\ osName \in {"posix", "nt"}
  /\ argv \in Argvs
  /\ \E c \in Contents :
       /\ \A p \in Paths : (\A k \in 1..Len(argv) : argv[k] # p) => c[p] = <<>>
       /\ fs = [p \in Paths |-> Concat(c[p])]
  /\ pc = "start"
  /\ idx = 0
  /\ lines = <<>> /\ i = 0 /\ found = FALSE /\ updated = FALSE
  /\ old_url = None /\ new_url = None
  /\ exitStatus = NoExit
  /\ log = <<>>
  /\ toolCalls = {}
  /\ before = <<>>
  /\ linesRead = <<>>
  /\ orig = fs
  /\ run = 1
  /\ prev = [fs |-> fs, log |-> <<>>, exitStatus |-> NoExit]

\* sys.exit(code)
Exit(code, ev) ==
  /\ pc' = "exit"
  /\ exitStatus' = code
  /\ log' = Append(log, ev)

\* End of the body of `for properties_path in sys.argv[1:]`
Advance(ev) ==
  /\ log' = Append(log, ev)
  /\ IF idx < Len(argv)
     THEN pc' = "which" /\ idx' = idx + 1 /\ UNCHANGED exitStatus
     ELSE pc' = "exit" /\ exitStatus' = ExitOk /\ UNCHANGED idx

\* lines 6-10
Usage ==
  /\ pc = "start"
  /\ IF Len(sys_argv) < 2
     THEN Exit(ExitUsage, Ev("usage", FALSE, <<>>)) /\ UNCHANGED idx
     ELSE pc' = "which" /\ idx' = 1 /\ UNCHANGED <<exitStatus, log>>
  /\ UNCHANGED <<fs, locals, toolCalls, before, linesRead, env>>

\* lines 13-16: shutil.which(mx_exec)
Which ==
  /\ pc = "which"
  /\ \E present \in BOOLEAN :
       IF ~present
       THEN Exit(ExitNoTool, Ev("which", FALSE, <<MxExec(osName)>>))
       ELSE pc' = "read" /\ log' = Append(log, Ev("which", TRUE, <<MxExec(osName)>>))
            /\ UNCHANGED exitStatus
  /\ UNCHANGED <<fs, idx, locals, toolCalls, before, linesRead, env>>

\* lines 18-27
Read ==
  /\ pc = "read"
  /\ \E ok \in BOOLEAN :
       IF ~ok
       THEN /\ Exit(ExitReadError, Ev("read", FALSE, <<>>))
            /\ UNCHANGED <<locals, before, linesRead>>
       ELSE /\ lines' = readlines(fs[properties_path])
            /\ linesRead' = lines'
            /\ before' = fs[properties_path]
            /\ found' = FALSE /\ updated' = FALSE /\ new_url' = None
            /\ i' = 1
            /\ pc' = "scan"
            /\ log' = Append(log, Ev("read", TRUE, lines'))
            /\ UNCHANGED <<old_url, exitStatus>>
  /\ UNCHANGED <<fs, idx, toolCalls, env>>

\* lines 28-29: a line that is not the target
ScanSkip ==
  /\ pc = "scan"
  /\ i <= Len(lines)
  /\ ~IsTarget(lines[i])
  /\ i' = i + 1
  /\ UNCHANGED <<fs, pc, idx, lines, found, updated, old_url, new_url, exitStatus,
                 log, toolCalls, before, linesRead, env>>

\* lines 29-31: the first target line
ScanMatch ==
  /\ pc = "scan"
  /\ i <= Len(lines)
  /\ IsTarget(lines[i])
  /\ found' = TRUE
  /\ old_url' = OldUrl(lines[i])
  /\ pc' = "tool"
  /\ UNCHANGED <<fs, idx, lines, i, updated, new_url, exitStatus, log, toolCalls,
                 before, linesRead, env>>

\* line 28: the loop ends without a target line
ScanEnd ==
  /\ pc = "scan"
  /\ i > Len(lines)
  /\ pc' = "writeback"
  /\ UNCHANGED <<fs, idx, locals, exitStatus, log, toolCalls, before, linesRead, env>>

\* lines 32-42: subprocess.check_output([mx_exec, 'urlrewrite', old_url])
Tool ==
  /\ pc = "tool"
  /\ \E r \in ToolResults(old_url) :
       /\ toolCalls' = toolCalls \cup {<<old_url, r>>}
       /\ IF r = ToolFail
          THEN /\ Exit(ExitToolError, Ev("tool", FALSE, <<old_url, r>>))
               /\ UNCHANGED <<lines, updated, new_url>>
          ELSE /\ new_url' = Decode(r)
               /\ IF Differs(new_url', old_url)
                  THEN /\ lines' = [lines EXCEPT ![i] = NewLine(new_url')]
                       /\ updated' = TRUE
                  ELSE UNCHANGED <<lines, updated>>
               /\ pc' = "writeback"
               /\ log' = Append(log, Ev("tool", TRUE, <<old_url, r>>))
               /\ UNCHANGED exitStatus
  /\ UNCHANGED <<fs, idx, i, found, old_url, before, linesRead, env>>

\* A slip: the file is opened for writing without the test of `updated`.
OpenForWrite_Unconditional ==
  /\ pc = "writeback"
  /\ \E ok \in BOOLEAN :
       IF ~ok
       THEN Exit(ExitWriteError, Ev("open_w", FALSE, <<>>)) /\ UNCHANGED fs
       ELSE /\ fs' = [fs EXCEPT ![properties_path] = <<>>]
            /\ pc' = "writelines"
            /\ log' = Append(log, Ev("open_w", TRUE, <<>>))
            /\ UNCHANGED exitStatus
  /\ UNCHANGED <<idx, locals, toolCalls, before, linesRead, env>>

\* lines 44-46, 50-52: open(properties_path, 'w') truncates the file
OpenForWrite ==
  /\ pc = "writeback"
  /\ updated
  /\ \E ok \in BOOLEAN :
       IF ~ok
       THEN Exit(ExitWriteError, Ev("open_w", FALSE, <<>>)) /\ UNCHANGED fs
       ELSE /\ fs' = [fs EXCEPT ![properties_path] = <<>>]
            /\ pc' = "writelines"
            /\ log' = Append(log, Ev("open_w", TRUE, <<>>))
            /\ UNCHANGED exitStatus
  /\ UNCHANGED <<idx, locals, toolCalls, before, linesRead, env>>

\* lines 47-52: f.writelines(lines) and the close at the end of `with`
WriteLines ==
  /\ pc = "writelines"
  /\ LET bytes == writelines(lines, osName)
     IN  \/ /\ fs' = [fs EXCEPT ![properties_path] = bytes]
            /\ Advance(Ev("write", TRUE, bytes))
         \/ \E n \in 0..(Len(bytes) - 1) :
              /\ fs' = [fs EXCEPT ![properties_path] = SubSeq(bytes, 1, n)]
              /\ Exit(ExitWriteError, Ev("write", FALSE, SubSeq(bytes, 1, n)))
              /\ UNCHANGED idx
  /\ UNCHANGED <<locals, toolCalls, before, linesRead, env>>

\* lines 53-55
NotFound ==
  /\ pc = "writeback"
  /\ ~updated
  /\ ~found
  /\ Exit(ExitNotFound, Ev("notfound", FALSE, <<>>))
  /\ UNCHANGED <<fs, idx, locals, toolCalls, before, linesRead, env>>

\* lines 37-38, 44, 53: found and not updated, on to the next path
AlreadySet ==
  /\ pc = "writeback"
  /\ ~updated
  /\ found
  /\ Advance(Ev("same", TRUE, <<>>))
  /\ UNCHANGED <<fs, locals, toolCalls, before, linesRead, env>>

\* The same command line is run again on the files as the last run left them.
Rerun ==
  /\ pc = "exit"
  /\ run = 1
  /\ run' = run + 1
  /\ prev' = [fs |-> fs, log |-> log, exitStatus |-> exitStatus]
  /\ pc' = "start"
  /\ idx' = 0
  /\ lines' = <<>> /\ i' = 0 /\ found' = FALSE /\ updated' = FALSE
  /\ old_url' = None /\ new_url' = None
  /\ exitStatus' = NoExit
  /\ log' = <<>>
  /\ before' = <<>>
  /\ linesRead' = <<>>
  /\ UNCHANGED <<osName, argv, fs, toolCalls, orig>>

Next ==
  \/ Usage
  \/ Which
  \/ Read
  \/ ScanSkip
  \/ ScanMatch
  \/ ScanEnd
  \/ Tool
  \/ OpenForWrite
  \/ WriteLines
  \/ NotFound
  \/ AlreadySet

Spec == Init /\ [][Next]_vars

\* Two runs in succession on one file.
InitTwice == Init /\ Len(argv) <= 1

NextTwice == Next \/ Rerun

SpecTwice == InitTwice /\ [][NextTwice]_vars

\* ------------------------------------------------------ reading the log
Last == log[Len(log)]

\* The last thing the run did was to complete the write of a patched file.
JustWritten == log # <<>> /\ Last.op = "write" /\ Last.ok

WrittenPath == argv[Last.k]

\* The body of the loop is at work on the file that was read into linesRead.
InBody == pc \in {"scan", "tool", "writeback", "writelines"}

\* What happened at position k of the command line, in order.
OpsAt(k) == SelectSeq(log, LAMBDA e : e.k = k)

\* Position of the first line whose trimmed text starts with 'distributionUrl='.
HasTarget(ls) == \E t \in 1..Len(ls) : IsTarget(ls[t])
FirstTarget(ls) ==
  CHOOSE t \in 1..Len(ls) : IsTarget(ls[t]) /\ \A m \in 1..(t - 1) : ~IsTarget(ls[m])

\* The file as lines of bytes, each with its terminator.
RawLines(bytes) == SplitKeep(bytes, <<>>, {LF})

\* Every line terminator of the file is the platform's.
NativeNewlines(bytes) == writelines(readlines(bytes), osName) = bytes

\* Exactly the target line of `old` is replaced, by key, '=', url and `nl`.
OneLineChanged(old, new, url, nl) ==
  /\ Len(new) = Len(old)
  /\ HasTarget(old)
  /\ new[FirstTarget(old)] = <<KEY, "=">> \o url \o nl
  /\ new[FirstTarget(old)] # old[FirstTarget(old)]
  /\ \A j \in 1..Len(old) : j # FirstTarget(old) => new[j] = old[j]

\* ---------------------------------------------------------------------- C1
\* C1 as stated: once a different (single-line) URL has been written, the file
\* differs from the original in exactly one line, the first distributionUrl
\* line, which is 'distributionUrl=<new URL>' and a newline; every other line
\* is byte-identical, in the original order and count.
C1_AsStated ==
  (JustWritten /\ ~HasLineBreak(new_url)) =>
    OneLineChanged(RawLines(before), RawLines(fs[WrittenPath]), new_url,
                   linesep(osName))

\* C1 amended: when the new URL holds no line break and the write completes,
\* the file read back as text has the lines of the original with only the first
\* distributionUrl line replaced by 'distributionUrl=<new URL>' and a newline,
\* the URL without surrounding whitespace; the other lines are byte-identical
\* when every line terminator of the original was the platform's.
C1_OneLineChanged ==
  (JustWritten /\ ~HasLineBreak(new_url)) =>
    /\ new_url = strip(new_url)
    /\ OneLineChanged(linesRead, readlines(fs[WrittenPath]), new_url, <<LF>>)
    /\ NativeNewlines(before) =>
         OneLineChanged(RawLines(before), RawLines(fs[WrittenPath]), new_url,
                        linesep(osName))

C1_Witness ==
  /\ JustWritten
  /\ ~HasLineBreak(new_url)
  /\ Len(linesRead) >= 2
  /\ NativeNewlines(before)

\* ---------------------------------------------------------------------- C2
\* The file at position k of the command line had no distributionUrl line.
NoTargetAt(k) == ~HasTarget(readlines(orig[argv[k]]))

\* C2 as stated: a run that ends at a file with no distributionUrl line ends
\* with exit status 1, and the file is byte-identical.
C2_AsStated ==
  (pc = "exit" /\ idx >= 1 /\ NoTargetAt(idx)) =>
    /\ exitStatus = 1
    /\ fs[argv[idx]] = orig[argv[idx]]

\* C2 amended: a file with no distributionUrl line is left byte-identical, is
\* never opened for writing and is never passed to the rewrite tool; the run
\* ends at that file, with exit status 1 when the rewrite tool was found on the
\* search path for it and with exit status 0 when it was not.
C2_NoTargetLine ==
  \A k \in 1..Len(argv) :
    NoTargetAt(k) =>
      /\ fs[argv[k]] = orig[argv[k]]
      /\ \A n \in 1..Len(log) :
           argv[log[n].k] = argv[k] => log[n].op \notin {"tool", "open_w", "write"}
      /\ idx <= k
      /\ (pc = "exit" /\ idx = k) =>
           exitStatus = (IF OpsAt(k)[1].ok THEN 1 ELSE 0)

C2_Witness ==
  /\ pc = "exit"
  /\ exitStatus = 1
  /\ Last.op = "notfound"
  /\ orig[argv[idx]] # <<>>
  /\ fs = orig

\* ---------------------------------------------------------------------- C3
\* The last call of the rewrite tool returned, after trimming, the URL it was
\* given, and the next file has not been read yet.
ToolSaidSame(n) ==
  /\ log[n].op = "tool"
  /\ log[n].ok
  /\ strip(log[n].data[2]) = log[n].data[1]
  /\ \A m \in (n + 1)..Len(log) : log[m].op # "read"

\* C3: when the rewrite tool returns the URL of the file's distributionUrl line
\* (both trimmed), the file is not opened for writing, its content stays as it
\* was read, and the run goes on to the next path or, at the last path, exits
\* with status 0.
C3_SameUrl ==
  \A n \in 1..Len(log) :
    ToolSaidSame(n) =>
      /\ log[n].data[1] = strip(AfterFirstEq(linesRead[FirstTarget(linesRead)]))
      /\ fs[argv[log[n].k]] = before
      /\ \A m \in 1..Len(log) :
           log[m].k = log[n].k => log[m].op \notin {"open_w", "write"}
      /\ (pc = "exit" /\ idx = log[n].k) => exitStatus = 0
      /\ pc \in {"writeback", "which", "read", "exit"}
      /\ (pc = "exit" /\ idx = log[n].k) => idx = Len(argv)

C3_Witness ==
  /\ pc = "exit"
  /\ exitStatus = 0
  /\ Last.op = "same"
  /\ \E n \in 1..Len(log) : ToolSaidSame(n) /\ log[n].data[2] # log[n].data[1]

\* ---------------------------------------------------------------------- C4
\* The rewrite tool is stable: the same URL always got the same answer.
Stable == \A c, d \in toolCalls : c[1] = d[1] => c[2] = d[2]

\* The first run read the file and exited with status 0.
FirstRunApplied ==
  /\ run = 2
  /\ prev.exitStatus = 0
  /\ \E n \in 1..Len(prev.log) : prev.log[n].op = "read" /\ prev.log[n].ok

\* Every URL the tool returned is a single line.
SingleLineUrls == \A c \in toolCalls : c[2] # ToolFail => ~HasLineBreak(strip(c[2]))

\* Whenever the tool was asked to rewrite a URL it had returned, it returned
\* that URL again.
Idempotent ==
  \A c, d \in toolCalls :
    (c[2] # ToolFail /\ d[1] = strip(c[2]) /\ d[2] # ToolFail) =>
      strip(d[2]) = strip(c[2])

\* C4 as stated: with a stable rewrite tool (returning single-line URLs), the
\* file after the second run is the file after the first run.
C4_AsStated ==
  (FirstRunApplied /\ pc = "exit" /\ Stable /\ SingleLineUrls) => fs = prev.fs

\* C4 amended: with a stable rewrite tool that returns single-line URLs and
\* returns a URL of its own unchanged, a second run that follows a first run
\* which read the file and exited with status 0 never changes the file.
C4_Idempotence ==
  (FirstRunApplied /\ Stable /\ SingleLineUrls /\ Idempotent) => fs = prev.fs

C4_Witness ==
  /\ FirstRunApplied
  /\ pc = "exit"
  /\ Stable
  /\ SingleLineUrls
  /\ Idempotent
  /\ prev.fs # orig
  /\ Last.op = "same"

\* ---------------------------------------------------------------------- C5
\* Completed writes of the file p, in order.
WritesOf(p) == SelectSeq(log, LAMBDA e : e.op = "write" /\ e.ok /\ argv[e.k] = p)

\* The file p holds what the last completed write put there, or its original
\* content when it was never written.
Settled(p) ==
  fs[p] = (IF WritesOf(p) = <<>> THEN orig[p] ELSE WritesOf(p)[Len(WritesOf(p))].data)

\* C5: when the rewrite tool is not found for the path at position k, the run
\* ends there with exit status 0; nothing else is done at position k or at any
\* later position (no read, no tool call, no write), and every file is as the
\* completed writes of earlier positions left it.
C5_ToolAbsent ==
  \A n \in 1..Len(log) :
    (log[n].op = "which" /\ ~log[n].ok) =>
      /\ n = Len(log)
      /\ pc = "exit"
      /\ exitStatus = 0
      /\ idx = log[n].k
      /\ OpsAt(log[n].k) = <<log[n]>>
      /\ \A m \in 1..Len(log) : log[m].k <= log[n].k
      /\ \A p \in Paths : Settled(p)

C5_Witness ==
  /\ pc = "exit"
  /\ Last.op = "which"
  /\ ~Last.ok
  /\ Last.k = 2
  /\ fs # orig
  /\ HasTarget(readlines(fs[argv[2]]))

\* ---------------------------------------------------------------------- C6
\* C6: after a fatal error at position k the run has exit status 1, nothing was
\* done at a later position, and every file patched at an earlier position
\* still holds the patch last written to it.
C6_FailFast ==
  (pc = "exit" /\ exitStatus = 1 /\ idx >= 1) =>
    /\ \A n \in 1..Len(log) : log[n].k <= idx
    /\ \A n \in 1..Len(log) :
         (/\ log[n].op = "write" /\ log[n].ok /\ log[n].k < idx
          /\ \A m \in (n + 1)..Len(log) :
               ~(log[m].op = "write" /\ log[m].ok /\ argv[log[m].k] = argv[log[n].k]))
           => fs[argv[log[n].k]] = log[n].data

\* ---------------------------------------------------------------------- C7
\* Every position of the command line ended with the URL already set or with
\* a completed write.
AllDone ==
  \A k \in 1..Len(argv) :
    \E n \in 1..Len(log) :
      log[n].k = k /\ (log[n].op = "same" \/ (log[n].op = "write" /\ log[n].ok))

\* C7: the exit status is 1 when no path is given (no file changed, no tool
\* call), when a file cannot be read, when the tool exits non-zero, when a file
\* cannot be written and when a file has no distributionUrl line; it is 0 when
\* the tool is not found and when every path ended already set or patched; a
\* run ends in no other way.
C7_ExitStatus ==
  pc = "exit" =>
    /\ argv = <<>> <=> Last.op = "usage"
    /\ Last.op = "usage" => (exitStatus = 1 /\ fs = orig /\ toolCalls = {} /\ Len(log) = 1)
    /\ (Last.op \in {"read", "tool", "open_w", "write"} /\ ~Last.ok) => exitStatus = 1
    /\ Last.op = "notfound" => (exitStatus = 1 /\ ~HasTarget(linesRead))
    /\ (Last.op = "which" /\ ~Last.ok) => exitStatus = 0
    /\ (Last.op \in {"same", "write"} /\ Last.ok) => (exitStatus = 0 /\ AllDone)
    /\ \/ Last.op \in {"usage", "notfound"}
       \/ Last.op \in {"which", "read", "tool", "open_w", "write"} /\ ~Last.ok
       \/ Last.op \in {"same", "write"} /\ Last.ok

C7_Witness ==
  /\ pc = "exit"
  /\ exitStatus = 1
  /\ Last.op = "read"
  /\ Last.k = 2
  /\ fs # orig

\* ---------------------------------------------------------------------- C8
\* C8: at every point of a run every file holds its original content or the
\* complete content of a patch written to it.
C8_NoPartialWrites ==
  \A p \in Paths :
    \/ fs[p] = orig[p]
    \/ \E n \in 1..Len(log) :
         log[n].op = "write" /\ log[n].ok /\ argv[log[n].k] = p /\ fs[p] = log[n].data
    \/ pc = "writelines" /\ p = properties_path /\ fs[p] = writelines(lines, osName)

\* ---------------------------------------------------------------------- C9
\* The lines after position t.
After(ls, t) == SubSeq(ls, t + 1, Len(ls))

\* The last n lines.
LastLines(ls, n) == SubSeq(ls, Len(ls) - n + 1, Len(ls))

\* C9: the line taken is the first whose trimmed text starts with
\* 'distributionUrl='; the URL passed to the tool is the trimmed text after its
\* first '='; no other line in memory is replaced; and after the write the
\* file ends with the lines that followed the target line, unchanged, later
\* distributionUrl lines included.
C9_FirstMatchOnly ==
  /\ (InBody /\ found) =>
       /\ IsTarget(linesRead[i])
       /\ \A m \in 1..(i - 1) : ~IsTarget(linesRead[m])
       /\ old_url = strip(AfterFirstEq(linesRead[i]))
       /\ \A j \in 1..Len(linesRead) : j # i => lines[j] = linesRead[j]
       /\ Len(lines) = Len(linesRead)
       /\ \A n \in 1..Len(log) :
            (log[n].op = "tool" /\ log[n].k = idx) => log[n].data[1] = old_url
  /\ JustWritten =>
       LastLines(readlines(fs[WrittenPath]), Len(linesRead) - i) = After(linesRead, i)

C9_Witness ==
  /\ JustWritten
  /\ \E j \in (i + 1)..Len(linesRead) :
       /\ IsTarget(linesRead[j])
       /\ strip(AfterFirstEq(linesRead[j])) # old_url
  /\ \E k \in 1..Len(old_url) : old_url[k] = "="

\* --------------------------------------------------------------------- C10
\* The operations at position k, as <<op, ok>>.
Steps(k) ==
  LET ops == OpsAt(k)
  IN  [n \in 1..Len(ops) |-> <<ops[n].op, ops[n].ok>>]

IsPrefix(a, b) == Len(a) <= Len(b) /\ SubSeq(b, 1, Len(a)) = a

\* The complete sequences of operations of one pass of the loop.
Passes ==
  { << <<"which", FALSE>> >>,
    << <<"which", TRUE>>, <<"read", FALSE>> >>,
    << <<"which", TRUE>>, <<"read", TRUE>>, <<"notfound", FALSE>> >>,
    << <<"which", TRUE>>, <<"read", TRUE>>, <<"tool", FALSE>> >>,
    << <<"which", TRUE>>, <<"read", TRUE>>, <<"tool", TRUE>>, <<"same", TRUE>> >>,
    << <<"which", TRUE>>, <<"read", TRUE>>, <<"tool", TRUE>>, <<"open_w", FALSE>> >>,
    << <<"which", TRUE>>, <<"read", TRUE>>, <<"tool", TRUE>>, <<"open_w", TRUE>>,
       <<"write", TRUE>> >>,
    << <<"which", TRUE>>, <<"read", TRUE>>, <<"tool", TRUE>>, <<"open_w", TRUE>>,
       <<"write", FALSE>> >> }

\* C10: at every position of the command line the steps are tool lookup, file
\* read, at most one tool call, at most one write, in this order and once each;
\* positions are taken in order; the tool is called only for a file that was
\* read and holds a distributionUrl line, with the URL of that line; a file is
\* opened for writing only when the tool exited zero with a different URL.
C10_StepOrder ==
  /\ \A k \in 1..Len(argv) :
       LET steps == Steps(k)
       IN  \E pass \in Passes : IsPrefix(steps, pass)
  /\ \A n \in 1..(Len(log) - 1) : log[n].k <= log[n + 1].k
  /\ \A n \in 1..Len(log) :
       /\ log[n].op = "tool" =>
            /\ log[n - 1].op = "read" /\ log[n - 1].ok /\ log[n - 1].k = log[n].k
            /\ HasTarget(log[n - 1].data)
            /\ log[n].data[1] =
                 strip(AfterFirstEq(log[n - 1].data[FirstTarget(log[n - 1].data)]))
       /\ log[n].op = "open_w" =>
            /\ log[n - 1].op = "tool" /\ log[n - 1].ok /\ log[n - 1].k = log[n].k
            /\ strip(log[n - 1].data[2]) # log[n - 1].data[1]
       /\ log[n].op = "same" =>
            /\ log[n - 1].op = "tool" /\ log[n - 1].ok /\ log[n - 1].k = log[n].k
            /\ strip(log[n - 1].data[2]) = log[n - 1].data[1]
       /\ log[n].op = "notfound" => ~HasTarget(log[n - 1].data)

C10_Witness ==
  /\ pc = "exit"
  /\ exitStatus = 0
  /\ Len(argv) = 2
  /\ Steps(1) = << <<"which", TRUE>>, <<"read", TRUE>>, <<"tool", TRUE>>,
                   <<"open_w", TRUE>>, <<"write", TRUE>> >>
  /\ Steps(2) = << <<"which", TRUE>>, <<"read", TRUE>>, <<"tool", TRUE>>,
                   <<"same", TRUE>> >>

====
